---- MODULE Spec2Model ----
(***************************************************************************)
(* A model of the print-queue repository:                                  *)
(*   PrintQueueManager   (src/PrintQueManager.py)   deque + threading.Lock *)
(*   CircularPrintQueue  (src/queue_management.py)  ring buffer            *)
(*   ConcurrentJobHandler (src/concurrent_job_handler.py)  batch workers   *)
(*   PrintSystem, JobManager (src/Main.py, src/jobManager.py)              *)
(*   EventSimulator      (src/even_simulator.py)    list of events         *)
(* The variable obj records which of the objects the driver constructed;   *)
(* the operations of the other objects are then not enabled.               *)
(***************************************************************************)
EXTENDS Integers, Sequences, FiniteSets, TLC

\* ------------------------------------------------------------------ bounds
capacity == 3
expiry_time == 3
aging_interval == 2
aging_increment == 1
MaxPriority == 2
MaxWait == 3
MaxJobs == 5
MaxBoosts == 2
MaxIssued == 3
max_threads == 2
MaxBatch == 3
MaxAdded == 2
MaxRounds == 1
MaxEvents == 2
MaxExpiry == 4
MaxTicks == 4
AgeEvery == 3

Users == {"a"}
Priorities == 1..MaxPriority
Threads == {"clock", "client"}
NoThread == "none"

VARIABLES
    obj,              \* which object was constructed
    last,             \* the last call: its name and what it returned (tick, which
                      \* returns nothing: ok says whether it has returned)
    pq_queue,         \* PrintQueueManager.queue (a deque, front first)
    pq_lock,          \* PrintQueueManager.lock: the thread holding it, or NoThread
    pq_pc,            \* per thread: where it is inside PrintQueueManager.tick
    pq_issued,        \* how many job ids the caller of enqueue_job has used
    cq_queue,         \* CircularPrintQueue.queue (slots 0..capacity-1)
    cq_front,         \* CircularPrintQueue.front
    cq_rear,          \* CircularPrintQueue.rear
    cq_size,          \* CircularPrintQueue.size
    cq_job_counter,   \* CircularPrintQueue.job_counter
    enq,              \* the call of CircularPrintQueue.enqueue in progress in a
                      \* thread of PrintSystem: its caller, position and locals
    proc,             \* the thread running PrintSystem.process_jobs: position, locals
    main,             \* the thread calling add_job / add_simultaneous_jobs
    s_lock,           \* PrintSystem.lock: held or not
    s_job_counter,    \* PrintSystem.job_counter
    jm_jobs,          \* JobManager.jobs: the job_id of each entry
    gs,               \* the call of CircularPrintQueue.get_status in progress in
                      \* the main thread: position, locals, and (history) the
                      \* contents the ring has had since the call began
    h,                \* the call of handle_simultaneous_submissions: position,
                      \* jobs, results, what it returned or raised
    h_lock,           \* ConcurrentJobHandler._submission_lock: the worker holding it
    w_pc,             \* per submission: where its worker is in _submit_single_job
    w_result,         \* per submission: the dictionary its worker returned
    es_events,        \* EventSimulator.events
    es_tick_count,    \* EventSimulator.tick_count
    es_issued,        \* how many event names the caller of add_event has used
    es_added          \* per event name: the priority add_event was given, and
                      \* tick_count at that call

pqVars == <<pq_queue, pq_lock, pq_pc, pq_issued>>
cqVars == <<cq_queue, cq_front, cq_rear, cq_size, cq_job_counter>>
sysVars == <<enq, proc, main, s_lock, s_job_counter, jm_jobs, gs>>
batchVars == <<h, h_lock, w_pc, w_result>>
esVars == <<es_events, es_tick_count, es_issued, es_added>>
vars == <<obj, last, pqVars, cqVars, sysVars, batchVars, esVars>>

\* ------------------------------------------------------------ job records
PrintJob(user_id, job_id, priority) ==
    [user_id |-> user_id, job_id |-> job_id, priority |-> priority, waiting_time |-> 0]

\* Python's None, where a job is expected.
None == [user_id |-> "", job_id |-> 0, priority |-> 0, waiting_time |-> 0]

\* PrintJob.__str__: the four fields in the order the format string prints them.
Str(job) == <<"Job", job.user_id, job.job_id, job.priority, job.waiting_time>>

Returned(op, ok, job, jobs) == [op |-> op, ok |-> ok, job |-> job, jobs |-> jobs]

Min(S) == CHOOSE x \in S : \A y \in S : x <= y

\* ------------------------------------------------- collections.deque
\* deque.rotate(n): n steps to the right, to the left when n is negative.
Rotate(q, n) ==
    IF Len(q) = 0 THEN q
    ELSE LET k == n % Len(q)
         IN  SubSeq(q, Len(q) - k + 1, Len(q)) \o SubSeq(q, 1, Len(q) - k)

\* deque.append on a deque built with maxlen: a full deque drops its leftmost item.
DequeAppend(q, x, maxlen) ==
    IF maxlen = 0 THEN q
    ELSE IF Len(q) >= maxlen THEN Tail(q) \o <<x>>
    ELSE Append(q, x)

\* -------------------------------------------------- PrintQueueManager
\* The test of the insertion loop of enqueue_job.
InsertsBefore(existing_job, job) ==
    \/ existing_job.priority < job.priority
    \/ /\ existing_job.priority = job.priority
       /\ existing_job.waiting_time > job.waiting_time

\* The index (from 0) at which the loop breaks, or -1 when it runs to its end.
InsertionIndex(q, job) ==
    LET hits == {i \in 1..Len(q) : InsertsBefore(q[i], job)}
    IN  IF hits = {} THEN -1 ELSE Min(hits) - 1

\* The deque after the body of enqueue_job, the capacity test passed.
InsertJob(q, job) ==
    LET i == InsertionIndex(q, job)
    IN  IF i >= 0
        THEN Rotate(DequeAppend(Rotate(q, -i), job, capacity), i)
        ELSE DequeAppend(q, job, capacity)

IsQueueFull(q) == Len(q) >= capacity

EnqueueJob(t, user_id, priority) ==
    /\ obj = "PrintQueueManager"
    /\ pq_pc[t] = "idle"
    /\ pq_lock = NoThread
    /\ IsQueueFull(pq_queue) \/ pq_issued < MaxIssued
    /\ LET job_id == pq_issued + 1
           job == PrintJob(user_id, job_id, priority)
       IN  IF IsQueueFull(pq_queue)
           THEN /\ last' = Returned("enqueue_job", FALSE, None, <<>>)
                /\ UNCHANGED pqVars
           ELSE /\ pq_queue' = InsertJob(pq_queue, job)
                /\ pq_issued' = job_id
                /\ last' = Returned("enqueue_job", TRUE, None, <<>>)
                /\ UNCHANGED <<pq_lock, pq_pc>>
    /\ UNCHANGED <<obj, esVars, cqVars, sysVars, batchVars>>

DequeueJob(t) ==
    /\ obj = "PrintQueueManager"
    /\ pq_pc[t] = "idle"
    /\ pq_lock = NoThread
    /\ IF pq_queue = <<>>
       THEN /\ last' = Returned("dequeue_job", FALSE, None, <<>>)
            /\ UNCHANGED pqVars
       ELSE /\ pq_queue' = Tail(pq_queue)
            /\ last' = Returned("dequeue_job", TRUE, Head(pq_queue), <<>>)
            /\ UNCHANGED <<pq_lock, pq_pc, pq_issued>>
    /\ UNCHANGED <<obj, esVars, cqVars, sysVars, batchVars>>

PQGetStatus(t) ==
    /\ obj = "PrintQueueManager"
    /\ pq_pc[t] = "idle"
    /\ pq_lock = NoThread
    /\ last' = Returned("get_status", TRUE, None, pq_queue)
    /\ UNCHANGED <<obj, esVars, pqVars, cqVars, sysVars, batchVars>>

\* The sort key of apply_priority_aging: (priority, -waiting_time), as a pair.
SortKey(x) == <<x.priority, -x.waiting_time>>

\* Python's order on the key tuples: a > b.
KeyGreater(a, b) == a[1] > b[1] \/ (a[1] = b[1] /\ a[2] > b[2])

\* One insertion of the stable descending sort: x goes after every item whose key
\* is not smaller, so items of equal key keep the order they came in.
InsertSorted(s, x) ==
    LET smaller == {i \in 1..Len(s) : KeyGreater(SortKey(x), SortKey(s[i]))}
    IN  IF smaller = {} THEN Append(s, x)
        ELSE LET i == Min(smaller)
             IN  SubSeq(s, 1, i - 1) \o <<x>> \o SubSeq(s, i, Len(s))

RECURSIVE SortedFrom(_, _, _)
SortedFrom(q, i, acc) ==
    IF i > Len(q) THEN acc ELSE SortedFrom(q, i + 1, InsertSorted(acc, q[i]))

\* sorted(queue, key=lambda x: (x.priority, -x.waiting_time), reverse=True)
SortedReverse(q) == SortedFrom(q, 1, <<>>)

\* The test of the aging loop.
ShouldAge(job) == job.waiting_time >= aging_interval

\* The aging loop starting the wait of a boosted job afresh.
AgedJobsResettingWait(q) ==
    [i \in 1..Len(q) |->
        IF ShouldAge(q[i])
        THEN [q[i] EXCEPT !.priority = @ + aging_increment, !.waiting_time = 0]
        ELSE q[i]]

\* The aging loop of apply_priority_aging.
AgedJobs(q) ==
    [i \in 1..Len(q) |->
        IF ShouldAge(q[i]) THEN [q[i] EXCEPT !.priority = @ + aging_increment] ELSE q[i]]

\* deque(iterable, maxlen): the last maxlen items of the iterable.
DequeOf(s, maxlen) ==
    IF Len(s) <= maxlen THEN s ELSE SubSeq(s, Len(s) - maxlen + 1, Len(s))

AgedQueue(q) == DequeOf(SortedReverse(AgedJobs(q)), capacity)

\* The test of the expiry loop with a strict comparison.
IsExpiredStrict(job) == job.waiting_time > expiry_time

\* The test of the expiry loop.
IsExpired(job) == job.waiting_time >= expiry_time

\* The loop of remove_expired_jobs from item i on: <<expired_jobs, remaining_jobs>>.
RECURSIVE ExpiryScan(_, _, _, _)
ExpiryScan(q, i, expired_jobs, remaining_jobs) ==
    IF i > Len(q) THEN <<expired_jobs, remaining_jobs>>
    ELSE IF IsExpired(q[i])
         THEN ExpiryScan(q, i + 1, Append(expired_jobs, q[i]), remaining_jobs)
         ELSE ExpiryScan(q, i + 1, expired_jobs, DequeAppend(remaining_jobs, q[i], capacity))

\* A method called on its own starts from "idle"; called from tick it starts from
\* the place tick calls it.  Either way the method takes the lock itself.
CallableAt(t, place) == pq_pc[t] \in {"idle", place} /\ pq_lock = NoThread

AfterCall(t, place, next) ==
    [pq_pc EXCEPT ![t] = IF pq_pc[t] = place THEN next ELSE "idle"]

\* The model stops boosting at MaxPriority + MaxBoosts * aging_increment.
CanBoost(q) ==
    \A i \in 1..Len(q) :
        ShouldAge(q[i]) => q[i].priority < MaxPriority + MaxBoosts * aging_increment

ApplyPriorityAging(t) ==
    /\ obj = "PrintQueueManager"
    /\ CallableAt(t, "tick_call_aging")
    /\ CanBoost(pq_queue)
    /\ pq_queue' = AgedQueue(pq_queue)
    /\ pq_pc' = AfterCall(t, "tick_call_aging", "tick_call_expiry")
    /\ last' = Returned("apply_priority_aging", TRUE, None, <<>>)
    /\ UNCHANGED <<obj, esVars, pq_lock, pq_issued, cqVars, sysVars, batchVars>>

RemoveExpiredJobs(t) ==
    /\ obj = "PrintQueueManager"
    /\ CallableAt(t, "tick_call_expiry")
    /\ LET scan == ExpiryScan(pq_queue, 1, <<>>, <<>>)
       IN  /\ pq_queue' = scan[2]
           /\ last' = Returned("remove_expired_jobs", TRUE, None, scan[1])
    /\ pq_pc' = AfterCall(t, "tick_call_expiry", "tick_call_show")
    /\ UNCHANGED <<obj, esVars, pq_lock, pq_issued, cqVars, sysVars, batchVars>>

\* show_status prints the queue and changes nothing; returning into tick, the
\* with block of tick ends and releases the lock.
ShowStatus(t) ==
    /\ obj = "PrintQueueManager"
    /\ CallableAt(t, "tick_call_show")
    /\ pq_pc' = AfterCall(t, "tick_call_show", "idle")
    /\ last' = Returned(IF pq_pc[t] = "idle" THEN "show_status" ELSE "tick",
                        TRUE, None, <<>>)
    /\ UNCHANGED <<obj, esVars, pq_queue, pq_lock, pq_issued, cqVars, sysVars, batchVars>>

\* The waiting-time loop of tick.
WaitingTimesAdvanced(q) ==
    [i \in 1..Len(q) |-> [q[i] EXCEPT !.waiting_time = @ + 1]]

CanAdvance(q) == \A i \in 1..Len(q) : q[i].waiting_time < MaxWait

\* tick: takes the lock, advances the waiting times, and calls
\* apply_priority_aging, which takes the lock itself (threading.Lock is not
\* reentrant).
Tick(t) ==
    /\ obj = "PrintQueueManager"
    /\ pq_pc[t] = "idle"
    /\ pq_lock = NoThread
    /\ CanAdvance(pq_queue)
    /\ pq_lock' = t
    /\ pq_queue' = WaitingTimesAdvanced(pq_queue)
    /\ pq_pc' = [pq_pc EXCEPT ![t] = "tick_call_aging"]
    /\ last' = Returned("tick", FALSE, None, <<>>)
    /\ UNCHANGED <<obj, esVars, pq_issued, cqVars, sysVars, batchVars>>

\* The first step of a tick on its own: the waiting times advance under the lock
\* and the lock is released.  Sequences of ticks are driven as this step followed
\* by calls of apply_priority_aging and remove_expired_jobs.
TickWaitingTimes(t) ==
    /\ obj = "PrintQueueManager"
    /\ pq_pc[t] = "idle"
    /\ pq_lock = NoThread
    /\ CanAdvance(pq_queue)
    /\ pq_queue /= <<>>
    /\ pq_queue' = WaitingTimesAdvanced(pq_queue)
    /\ last' = Returned("tick_waiting_times", TRUE, None, <<>>)
    /\ UNCHANGED <<obj, esVars, pq_lock, pq_pc, pq_issued, cqVars, sysVars, batchVars>>

\* What thread t can do next.
PQStep(t) ==
    \/ \E u \in Users, p \in Priorities : EnqueueJob(t, u, p)
    \/ DequeueJob(t)
    \/ PQGetStatus(t)
    \/ ApplyPriorityAging(t)
    \/ RemoveExpiredJobs(t)
    \/ ShowStatus(t)
    \/ Tick(t)
    \/ TickWaitingTimes(t)

\* -------------------------------------------------- CircularPrintQueue
\* is_full with the comparison off by one.
is_full_above(size) == size > capacity

is_full(size) == size = capacity

is_empty(size) == size = 0

\* enqueue numbering the new job by the number of resident jobs.
EnqueueCountingResidents(user_id, priority) ==
    /\ obj = "CircularPrintQueue"
    /\ is_full(cq_size) \/ cq_job_counter < MaxJobs
    /\ IF is_full(cq_size)
       THEN /\ last' = Returned("enqueue", FALSE, None, <<>>)
            /\ UNCHANGED cqVars
       ELSE LET job_counter == cq_size + 1
                new_job == PrintJob(user_id, job_counter, priority)
                rear == (cq_rear + 1) % capacity
            IN  /\ cq_job_counter' = job_counter
                /\ cq_rear' = rear
                /\ cq_queue' = [cq_queue EXCEPT ![rear] = new_job]
                /\ cq_size' = cq_size + 1
                /\ last' = Returned("enqueue", TRUE, None, <<>>)
                /\ UNCHANGED cq_front
    /\ UNCHANGED <<obj, esVars, pqVars, sysVars, batchVars>>

Enqueue(user_id, priority) ==
    /\ obj = "CircularPrintQueue"
    /\ is_full(cq_size) \/ cq_job_counter < MaxJobs
    /\ IF is_full(cq_size)
       THEN /\ last' = Returned("enqueue", FALSE, None, <<>>)
            /\ UNCHANGED cqVars
       ELSE LET job_counter == cq_job_counter + 1
                new_job == PrintJob(user_id, job_counter, priority)
                rear == (cq_rear + 1) % capacity
            IN  /\ cq_job_counter' = job_counter
                /\ cq_rear' = rear
                /\ cq_queue' = [cq_queue EXCEPT ![rear] = new_job]
                /\ cq_size' = cq_size + 1
                /\ last' = Returned("enqueue", TRUE, None, <<>>)
                /\ UNCHANGED cq_front
    /\ UNCHANGED <<obj, esVars, pqVars, sysVars, batchVars>>

\* dequeue stepping front past the slot it found empty.
DequeueMovingFrontWhenEmpty ==
    /\ obj = "CircularPrintQueue"
    /\ IF is_empty(cq_size)
       THEN /\ cq_front' = (cq_front + 1) % capacity
            /\ last' = Returned("dequeue", FALSE, None, <<>>)
            /\ UNCHANGED <<cq_queue, cq_rear, cq_size, cq_job_counter>>
       ELSE /\ cq_queue' = [cq_queue EXCEPT ![cq_front] = None]
            /\ cq_front' = (cq_front + 1) % capacity
            /\ cq_size' = cq_size - 1
            /\ last' = Returned("dequeue", TRUE, cq_queue[cq_front], <<>>)
            /\ UNCHANGED <<cq_rear, cq_job_counter>>
    /\ UNCHANGED <<obj, esVars, pqVars, sysVars, batchVars>>

\* dequeue leaving the job it returns in its slot.
DequeueLeavingSlot ==
    /\ obj = "CircularPrintQueue"
    /\ IF is_empty(cq_size)
       THEN /\ last' = Returned("dequeue", FALSE, None, <<>>)
            /\ UNCHANGED cqVars
       ELSE /\ cq_front' = (cq_front + 1) % capacity
            /\ cq_size' = cq_size - 1
            /\ last' = Returned("dequeue", TRUE, cq_queue[cq_front], <<>>)
            /\ UNCHANGED <<cq_queue, cq_rear, cq_job_counter>>
    /\ UNCHANGED <<obj, esVars, pqVars, sysVars, batchVars>>

Dequeue ==
    /\ obj = "CircularPrintQueue"
    /\ IF is_empty(cq_size)
       THEN /\ last' = Returned("dequeue", FALSE, None, <<>>)
            /\ UNCHANGED cqVars
       ELSE /\ cq_queue' = [cq_queue EXCEPT ![cq_front] = None]
            /\ cq_front' = (cq_front + 1) % capacity
            /\ cq_size' = cq_size - 1
            /\ last' = Returned("dequeue", TRUE, cq_queue[cq_front], <<>>)
            /\ UNCHANGED <<cq_rear, cq_job_counter>>
    /\ UNCHANGED <<obj, esVars, pqVars, sysVars, batchVars>>

\* update_waiting_times looping over range(self.size) instead of every slot.
SlotsTickedWithinSize(queue) ==
    [i \in DOMAIN queue |->
        IF i < cq_size /\ queue[i] /= None
        THEN [queue[i] EXCEPT !.waiting_time = @ + 1]
        ELSE queue[i]]

\* The loop of update_waiting_times over every slot.
SlotsTicked(queue) ==
    [i \in DOMAIN queue |->
        IF queue[i] /= None THEN [queue[i] EXCEPT !.waiting_time = @ + 1] ELSE queue[i]]

UpdateWaitingTimes ==
    /\ obj = "CircularPrintQueue"
    /\ \A i \in DOMAIN cq_queue : cq_queue[i].waiting_time < MaxWait
    /\ cq_queue' = SlotsTicked(cq_queue)
    /\ last' = Returned("update_waiting_times", TRUE, None, <<>>)
    /\ UNCHANGED <<obj, esVars, pqVars, cq_front, cq_rear, cq_size, cq_job_counter, sysVars,
                   batchVars>>

\* The loop of get_status: size slots from front on, the empty ones skipped.
RECURSIVE StatusFrom(_, _, _, _)
StatusFrom(queue, index, n, status) ==
    IF n = 0 THEN status
    ELSE StatusFrom(queue, (index + 1) % capacity, n - 1,
                    IF queue[index] /= None THEN Append(status, Str(queue[index]))
                    ELSE status)

Status(queue, front, size) ==
    IF is_empty(size) THEN <<>> ELSE StatusFrom(queue, front, size, <<>>)

GetStatus ==
    /\ obj = "CircularPrintQueue"
    /\ last' = Returned("get_status", TRUE, None, Status(cq_queue, cq_front, cq_size))
    /\ UNCHANGED <<obj, esVars, pqVars, cqVars, sysVars, batchVars>>

\* The loop of get_job_by_id: n slots from index on.
RECURSIVE JobByIdFrom(_, _, _, _)
JobByIdFrom(queue, index, n, job_id) ==
    IF n = 0 THEN None
    ELSE IF queue[index] /= None /\ queue[index].job_id = job_id THEN queue[index]
    ELSE JobByIdFrom(queue, (index + 1) % capacity, n - 1, job_id)

\* A lookup that starts at slot 0 instead of front.
JobByIdFromSlotZero(queue, front, size, job_id) ==
    JobByIdFrom(queue, 0, size, job_id)

JobById(queue, front, size, job_id) == JobByIdFrom(queue, front, size, job_id)

\* The job_id arguments of get_job_by_id: ids assigned, not yet assigned, and 0.
JobIds == 0..MaxJobs

\* get_job_by_id; last.jobs keeps the job_id it was called with.
GetJobById(job_id) ==
    /\ obj = "CircularPrintQueue"
    /\ LET job == JobById(cq_queue, cq_front, cq_size, job_id)
       IN  last' = Returned("get_job_by_id", job /= None, job, <<job_id>>)
    /\ UNCHANGED <<obj, esVars, pqVars, cqVars, sysVars, batchVars>>

NextCQ ==
    \/ \E u \in Users, p \in Priorities : Enqueue(u, p)
    \/ Dequeue
    \/ UpdateWaitingTimes
    \/ GetStatus
    \/ \E job_id \in JobIds : GetJobById(job_id)

\* ------------------------------------------------------ EventSimulator
Event(name, expiry, priority) ==
    [name |-> name, waiting_time |-> 0, expiry_time |-> expiry, priority |-> priority]

\* The expiry times the caller of add_event passes.
EventExpiries == {MaxExpiry - 1, MaxExpiry}

\* Event.tick.
EventTick(event) == [event EXCEPT !.waiting_time = @ + 1]

should_age(event) == event.waiting_time % AgeEvery = 0

apply_aging(event) == [event EXCEPT !.priority = @ + 1]

is_expired(event) == event.waiting_time >= event.expiry_time

\* The loop run over the list itself, by index: a removal shifts the events after
\* it one place down and the index steps past the first of them.
RECURSIVE EventLoopOverList(_, _, _, _)
EventLoopOverList(events, k, kept, printed) ==
    IF k > Len(events) THEN [events |-> events, printed |-> printed]
    ELSE LET event == EventTick(events[k])
         IN  IF is_expired(event)
             THEN EventLoopOverList(
                      SubSeq(events, 1, k - 1) \o SubSeq(events, k + 1, Len(events)),
                      k + 1, kept, Append(printed, <<"EXPIRED", event.name>>))
             ELSE IF should_age(event)
             THEN EventLoopOverList(
                      [events EXCEPT ![k] = apply_aging(event)], k + 1, kept,
                      Append(printed, <<"AGED", event.name,
                                        apply_aging(event).priority>>))
             ELSE EventLoopOverList([events EXCEPT ![k] = event], k + 1, kept, printed)

\* The first loop of EventSimulator.tick, over a copy of the list: every event
\* ticks, then is removed when expired, else aged when due.  printed collects the
\* lines the loop prints.
RECURSIVE EventLoop(_, _, _, _)
EventLoop(events, k, kept, printed) ==
    IF k > Len(events) THEN [events |-> kept, printed |-> printed]
    ELSE LET event == EventTick(events[k])
         IN  IF is_expired(event)
             THEN EventLoop(events, k + 1, kept,
                            Append(printed, <<"EXPIRED", event.name>>))
             ELSE IF should_age(event)
             THEN EventLoop(events, k + 1, Append(kept, apply_aging(event)),
                            Append(printed, <<"AGED", event.name,
                                              apply_aging(event).priority>>))
             ELSE EventLoop(events, k + 1, Append(kept, event), printed)

Swapped(events, j) ==
    [events EXCEPT ![j] = events[j + 1], ![j + 1] = events[j]]

\* The inner loop of the sort swapping neighbours of equal priority too.
RECURSIVE BubblePassSwappingEqual(_, _, _)
BubblePassSwappingEqual(events, j, limit) ==
    IF j >= limit THEN events
    ELSE BubblePassSwappingEqual(IF events[j + 1].priority <= events[j + 2].priority
                                 THEN Swapped(events, j + 1)
                                 ELSE events,
                                 j + 1, limit)

\* The inner loop of the sort: j (from 0) runs up to limit.
RECURSIVE BubblePass(_, _, _)
BubblePass(events, j, limit) ==
    IF j >= limit THEN events
    ELSE BubblePass(IF events[j + 1].priority < events[j + 2].priority
                    THEN Swapped(events, j + 1)
                    ELSE events,
                    j + 1, limit)

\* The outer loop of the sort.
RECURSIVE BubbleSort(_, _)
BubbleSort(events, i) ==
    IF i >= Len(events) THEN events
    ELSE BubbleSort(BubblePass(events, 0, Len(events) - i - 1), i + 1)

AddEvent(expiry, priority) ==
    /\ obj = "EventSimulator"
    /\ es_issued < MaxEvents
    /\ es_issued' = es_issued + 1
    /\ es_events' = Append(es_events, Event(es_issued + 1, expiry, priority))
    /\ es_added' = Append(es_added, [priority |-> priority, tick_count |-> es_tick_count])
    /\ last' = Returned("add_event", TRUE, None, <<>>)
    /\ UNCHANGED <<obj, pqVars, cqVars, sysVars, batchVars, es_tick_count>>

EventSimulatorTick ==
    /\ obj = "EventSimulator"
    /\ es_tick_count < MaxTicks
    /\ es_tick_count' = es_tick_count + 1
    /\ LET loop == EventLoop(es_events, 1, <<>>, <<>>)
       IN  /\ es_events' = BubbleSort(loop.events, 0)
           /\ last' = Returned("EventSimulator.tick", TRUE, None, loop.printed)
    /\ UNCHANGED <<obj, pqVars, cqVars, sysVars, batchVars, es_issued, es_added>>

NextES ==
    \/ \E x \in EventExpiries, p \in Priorities : AddEvent(x, p)
    \/ EventSimulatorTick

\* ------------------------------------------------------- PrintSystem
\* PrintSystem constructed, and PrintSystem constructed with run() started: the
\* second has the thread of process_jobs.
SystemObjs == {"PrintSystem", "PrintSystem.run"}

\* The caller of enqueue: the main thread, or the worker of a submission.
MainThread == 0
NoCaller == -1

NoCall ==
    [caller |-> NoCaller, pc |-> "none", user_id |-> "", priority |-> 0,
     new_job |-> None, size |-> 0, result |-> FALSE]

CallEnqueue(caller, user_id, priority) ==
    [NoCall EXCEPT !.caller = caller, !.pc = "is_full",
                   !.user_id = user_id, !.priority = priority]

\* CircularPrintQueue.enqueue in a thread of PrintSystem, a step per statement and
\* the read and the write of size apart.  job_counter and rear are touched by
\* enqueue alone, and PrintSystem never has two calls of enqueue in progress: the
\* main thread is in add_job or waits for the workers, and the workers hold
\* _submission_lock.
EnqIsFull ==
    /\ enq.pc = "is_full"
    /\ enq' = IF is_full(cq_size)
              THEN [enq EXCEPT !.pc = "returned", !.result = FALSE]
              ELSE [enq EXCEPT !.pc = "job_counter"]
    /\ UNCHANGED <<obj, esVars, last, pqVars, cqVars, proc, main, s_lock, s_job_counter,
                   jm_jobs, gs, batchVars>>

EnqJobCounter ==
    /\ enq.pc = "job_counter"
    /\ cq_job_counter' = cq_job_counter + 1
    /\ enq' = [enq EXCEPT !.pc = "rear",
                          !.new_job = PrintJob(enq.user_id, cq_job_counter + 1,
                                               enq.priority)]
    /\ UNCHANGED <<obj, esVars, last, pqVars, cq_queue, cq_front, cq_rear, cq_size, proc,
                   main, s_lock, s_job_counter, jm_jobs, gs, batchVars>>

EnqRear ==
    /\ enq.pc = "rear"
    /\ cq_rear' = (cq_rear + 1) % capacity
    /\ enq' = [enq EXCEPT !.pc = "slot"]
    /\ UNCHANGED <<obj, esVars, last, pqVars, cq_queue, cq_front, cq_size, cq_job_counter,
                   proc, main, s_lock, s_job_counter, jm_jobs, gs, batchVars>>

EnqSlot ==
    /\ enq.pc = "slot"
    /\ cq_queue' = [cq_queue EXCEPT ![cq_rear] = enq.new_job]
    /\ enq' = [enq EXCEPT !.pc = "size_read"]
    /\ UNCHANGED <<obj, esVars, last, pqVars, cq_front, cq_rear, cq_size, cq_job_counter,
                   proc, main, s_lock, s_job_counter, jm_jobs, gs, batchVars>>

EnqSizeRead ==
    /\ enq.pc = "size_read"
    /\ enq' = [enq EXCEPT !.pc = "size_write", !.size = cq_size]
    /\ UNCHANGED <<obj, esVars, last, pqVars, cqVars, proc, main, s_lock, s_job_counter,
                   jm_jobs, gs, batchVars>>

\* enqueue returning without having counted its job in size.
EnqSizeWriteNotCounting ==
    /\ enq.pc = "size_write"
    /\ cq_size' = enq.size
    /\ enq' = [enq EXCEPT !.pc = "returned", !.result = TRUE]
    /\ UNCHANGED <<obj, esVars, last, pqVars, cq_queue, cq_front, cq_rear, cq_job_counter,
                   proc, main, s_lock, s_job_counter, jm_jobs, gs, batchVars>>

EnqSizeWrite ==
    /\ enq.pc = "size_write"
    /\ cq_size' = enq.size + 1
    /\ enq' = [enq EXCEPT !.pc = "returned", !.result = TRUE]
    /\ UNCHANGED <<obj, esVars, last, pqVars, cq_queue, cq_front, cq_rear, cq_job_counter,
                   proc, main, s_lock, s_job_counter, jm_jobs, gs, batchVars>>

EnqStep ==
    \/ EnqIsFull
    \/ EnqJobCounter
    \/ EnqRear
    \/ EnqSlot
    \/ EnqSizeRead
    \/ EnqSizeWrite

\* CircularPrintQueue.get_status called by the main thread, a step per read of a
\* field or slot.
NoStatusCall == [pc |-> "none", index |-> 0, n |-> 0, status |-> <<>>, seen |-> {}]

\* What the ring holds at an instant: the jobs met from front on, in order.
Contents(queue, front) == StatusFrom(queue, front, capacity, <<>>)

\* The history kept while a call of get_status runs: one more instant.
Observed(call, queue, front) ==
    IF call.pc \in {"none", "returned"} THEN call
    ELSE [call EXCEPT !.seen = @ \cup {Contents(queue, front)}]

\* PrintSystem.add_job up to its call of enqueue.  (The expiry manager and the
\* event simulator it also feeds keep lists of their own and never touch the
\* queue or the registry.)
AddJobCall(user_id, priority) ==
    /\ obj \in SystemObjs
    /\ main.pc = "idle"
    /\ ~s_lock
    /\ s_job_counter < MaxAdded
    /\ s_lock' = TRUE
    /\ s_job_counter' = s_job_counter + 1
    /\ main' = [main EXCEPT !.pc = "add_job", !.job_id = s_job_counter + 1,
                            !.typed = <<>>]
    /\ enq' = CallEnqueue(MainThread, user_id, priority)
    /\ gs' = NoStatusCall
    /\ UNCHANGED <<obj, esVars, last, pqVars, cqVars, proc, jm_jobs, batchVars>>

\* JobManager.add_job: one more entry in the registry.
JobManagerAddJob(jobs, job_id) == Append(jobs, job_id)

\* PrintSystem.add_job from the return of enqueue on.
AddJobReturn ==
    /\ main.pc = "add_job"
    /\ enq.caller = MainThread
    /\ enq.pc = "returned"
    /\ jm_jobs' = IF enq.result THEN JobManagerAddJob(jm_jobs, main.job_id) ELSE jm_jobs
    /\ main' = [main EXCEPT !.pc = "idle",
                            !.out = IF enq.result THEN "True" ELSE "False"]
    /\ s_lock' = FALSE
    /\ enq' = NoCall
    /\ UNCHANGED <<obj, esVars, last, pqVars, cqVars, gs, proc, s_job_counter, batchVars>>

GetStatusCall ==
    /\ obj \in SystemObjs
    /\ main.pc = "idle"
    /\ main' = [main EXCEPT !.pc = "get_status", !.typed = <<>>]
    /\ gs' = [NoStatusCall EXCEPT !.pc = "is_empty",
                                  !.seen = {Contents(cq_queue, cq_front)}]
    /\ UNCHANGED <<obj, esVars, last, pqVars, cqVars, enq, proc, s_lock, s_job_counter,
                   jm_jobs, batchVars>>

\* get_status: the test of is_empty.
StatusIsEmpty ==
    /\ gs.pc = "is_empty"
    /\ gs' = [gs EXCEPT !.pc = IF is_empty(cq_size) THEN "returned" ELSE "front"]
    /\ UNCHANGED <<obj, esVars, last, pqVars, cqVars, enq, proc, main, s_lock,
                   s_job_counter, jm_jobs, batchVars>>

\* get_status: index = self.front.
StatusFront ==
    /\ gs.pc = "front"
    /\ gs' = [gs EXCEPT !.pc = "size", !.index = cq_front]
    /\ UNCHANGED <<obj, esVars, last, pqVars, cqVars, enq, proc, main, s_lock,
                   s_job_counter, jm_jobs, batchVars>>

\* get_status: range(self.size), evaluated once.
StatusSize ==
    /\ gs.pc = "size"
    /\ gs' = [gs EXCEPT !.pc = IF cq_size > 0 THEN "test" ELSE "returned",
                        !.n = cq_size]
    /\ UNCHANGED <<obj, esVars, last, pqVars, cqVars, enq, proc, main, s_lock,
                   s_job_counter, jm_jobs, batchVars>>

\* The state of the call after the body of its loop for one slot.
NextSlot(call) ==
    [call EXCEPT !.index = (call.index + 1) % capacity,
                 !.n = call.n - 1,
                 !.pc = IF call.n - 1 > 0 THEN "test" ELSE "returned"]

\* get_status: the test of the slot against None.
StatusTest ==
    /\ gs.pc = "test"
    /\ gs' = IF cq_queue[gs.index] /= None
             THEN [gs EXCEPT !.pc = "str"]
             ELSE NextSlot(gs)
    /\ UNCHANGED <<obj, esVars, last, pqVars, cqVars, enq, proc, main, s_lock,
                   s_job_counter, jm_jobs, batchVars>>

\* str of whatever the slot holds now (str(None) is "None").
StrOfSlot(slot) == IF slot = None THEN <<"None">> ELSE Str(slot)

\* get_status: the slot read again and its string appended.
StatusStr ==
    /\ gs.pc = "str"
    /\ gs' = NextSlot([gs EXCEPT !.status = Append(@, StrOfSlot(cq_queue[gs.index]))])
    /\ UNCHANGED <<obj, esVars, last, pqVars, cqVars, enq, proc, main, s_lock,
                   s_job_counter, jm_jobs, batchVars>>

\* The main thread has the list get_status returned (and drops it when it goes on
\* to its next call).
GetStatusReturn ==
    /\ main.pc = "get_status"
    /\ gs.pc = "returned"
    /\ main' = [main EXCEPT !.pc = "idle", !.out = "get_status"]
    /\ UNCHANGED <<obj, esVars, last, pqVars, cqVars, enq, proc, s_lock, s_job_counter,
                   jm_jobs, gs, batchVars>>

StatusStep ==
    \/ GetStatusCall
    \/ StatusIsEmpty
    \/ StatusFront
    \/ StatusSize
    \/ StatusTest
    \/ StatusStr
    \/ GetStatusReturn

\* The thread of process_jobs, a step per access to a field the other threads
\* reach.  front is touched by dequeue alone.  (The event simulator and the
\* expiry manager the loop also calls work on lists of their own.)
ProcIdle == [pc |-> "loop", round |-> 0, job |-> None, size |-> 0, i |-> 0]

Running ==
    /\ obj = "PrintSystem.run"
    /\ main.pc /= "raised"

\* process_jobs: a round of its loop begins with the test of is_empty.
ProcIsEmpty ==
    /\ Running
    /\ proc.pc = "loop"
    /\ proc.round < MaxRounds
    /\ proc' = IF is_empty(cq_size)
               THEN [proc EXCEPT !.pc = "update", !.i = 0, !.round = @ + 1]
               ELSE [proc EXCEPT !.pc = "deq_is_empty", !.round = @ + 1]
    /\ UNCHANGED <<obj, esVars, last, pqVars, cqVars, enq, main, s_lock, s_job_counter,
                   jm_jobs, gs, batchVars>>

\* dequeue: its own test of is_empty.
DeqIsEmpty ==
    /\ Running
    /\ proc.pc = "deq_is_empty"
    /\ proc' = IF is_empty(cq_size)
               THEN [proc EXCEPT !.pc = "update", !.i = 0, !.job = None]
               ELSE [proc EXCEPT !.pc = "deq_read"]
    /\ UNCHANGED <<obj, esVars, last, pqVars, cqVars, enq, main, s_lock, s_job_counter,
                   jm_jobs, gs, batchVars>>

DeqRead ==
    /\ Running
    /\ proc.pc = "deq_read"
    /\ proc' = [proc EXCEPT !.pc = "deq_clear", !.job = cq_queue[cq_front]]
    /\ UNCHANGED <<obj, esVars, last, pqVars, cqVars, enq, main, s_lock, s_job_counter,
                   jm_jobs, gs, batchVars>>

DeqClear ==
    /\ Running
    /\ proc.pc = "deq_clear"
    /\ cq_queue' = [cq_queue EXCEPT ![cq_front] = None]
    /\ proc' = [proc EXCEPT !.pc = "deq_front"]
    /\ gs' = Observed(gs, cq_queue', cq_front)
    /\ UNCHANGED <<obj, esVars, last, pqVars, cq_front, cq_rear, cq_size, cq_job_counter,
                   enq, main, s_lock, s_job_counter, jm_jobs, batchVars>>

DeqFront ==
    /\ Running
    /\ proc.pc = "deq_front"
    /\ cq_front' = (cq_front + 1) % capacity
    /\ proc' = [proc EXCEPT !.pc = "deq_size_read"]
    /\ gs' = Observed(gs, cq_queue, cq_front')
    /\ UNCHANGED <<obj, esVars, last, pqVars, cq_queue, cq_rear, cq_size, cq_job_counter,
                   enq, main, s_lock, s_job_counter, jm_jobs, batchVars>>

DeqSizeRead ==
    /\ Running
    /\ proc.pc = "deq_size_read"
    /\ proc' = [proc EXCEPT !.pc = "deq_size_write", !.size = cq_size]
    /\ UNCHANGED <<obj, esVars, last, pqVars, cqVars, enq, main, s_lock, s_job_counter,
                   jm_jobs, gs, batchVars>>

DeqSizeWrite ==
    /\ Running
    /\ proc.pc = "deq_size_write"
    /\ cq_size' = proc.size - 1
    /\ proc' = [proc EXCEPT !.pc = "update", !.i = 0]
    /\ UNCHANGED <<obj, esVars, last, pqVars, cq_queue, cq_front, cq_rear, cq_job_counter,
                   enq, main, s_lock, s_job_counter, jm_jobs, gs, batchVars>>

\* update_waiting_times: one round of its loop, then back to the top of the loop
\* of process_jobs.
UpdateSlot ==
    /\ Running
    /\ proc.pc = "update"
    /\ proc.i < capacity
    /\ cq_queue' = IF cq_queue[proc.i] /= None
                   THEN [cq_queue EXCEPT ![proc.i].waiting_time = @ + 1]
                   ELSE cq_queue
    /\ proc' = IF proc.i + 1 < capacity
               THEN [proc EXCEPT !.i = proc.i + 1]
               ELSE [ProcIdle EXCEPT !.round = proc.round]
    /\ gs' = Observed(gs, cq_queue', cq_front)
    /\ UNCHANGED <<obj, esVars, last, pqVars, cq_front, cq_rear, cq_size, cq_job_counter,
                   enq, main, s_lock, s_job_counter, jm_jobs, batchVars>>

ProcessJobs ==
    \/ ProcIsEmpty
    \/ DeqIsEmpty
    \/ DeqRead
    \/ DeqClear
    \/ DeqFront
    \/ DeqSizeRead
    \/ DeqSizeWrite
    \/ UpdateSlot

\* ------------------------------------------------ ConcurrentJobHandler
Submissions == 1..MaxBatch

\* The lists parse_simultaneous_command can return, up to MaxBatch pairs.
BatchJobs == UNION {[1..n -> Users \X Priorities] : n \in 0..MaxBatch}

NoWorker == 0

NoResult == [success |-> FALSE, job_id |-> 0, message |-> ""]

\* What a call returned or raised: raised names the exception ("" for a normal
\* return), value is the dictionary returned.
Raise(exception) == [raised |-> exception, value |-> <<>>]

Return(value) == [raised |-> "", value |-> value]

NoBatch ==
    [pc |-> "idle", jobs |-> <<>>, initial_size |-> 0, results |-> <<>>,
     collected |-> {}, out |-> Return(<<>>)]

\* max_workers of the ThreadPoolExecutor.
MaxWorkers(jobs) == Min({max_threads, Len(jobs)})

\* future_to_job is built by braces around a comprehension with no key: a set.
FutureToJobKind == "set"

\* Whether future_to_job[future] can be evaluated.
Subscriptable(kind) == kind = "dict"

\* The early return of handle_simultaneous_submissions for an empty list.
NoJobsResult ==
    [success_count |-> 0, failed_count |-> 0, message |-> "No jobs to submit"]

\* results.sort(key=original_index).
SortedByOriginalIndex(results) ==
    [k \in 1..Len(results) |->
        CHOOSE r \in {results[j] : j \in 1..Len(results)} :
            Cardinality({j \in 1..Len(results) :
                            results[j].original_index < r.original_index}) = k - 1]

\* The dictionary handle_simultaneous_submissions returns after the pool.
BatchResult(results) ==
    LET success_count == Cardinality({j \in 1..Len(results) : results[j].success})
    IN  [success_count |-> success_count,
         failed_count |-> Len(results) - success_count,
         message |-> "Processed"]

\* ------------------------------------- parse_simultaneous_command
\* A str is the sequence of its characters.
Digits == <<"0", "1", "2", "3", "4", "5", "6", "7", "8", "9">>

IsDigit(c) == \E d \in 1..Len(Digits) : Digits[d] = c

DigitValue(c) == (CHOOSE d \in 1..Len(Digits) : Digits[d] = c) - 1

RECURSIVE LStrip(_)
LStrip(s) == IF s /= <<>> /\ Head(s) = " " THEN LStrip(Tail(s)) ELSE s

RECURSIVE RStrip(_)
RStrip(s) ==
    IF s /= <<>> /\ s[Len(s)] = " " THEN RStrip(SubSeq(s, 1, Len(s) - 1)) ELSE s

\* str.strip()
Strip(s) == RStrip(LStrip(s))

\* str.split(sep) from character i on: cur is the piece being read.
RECURSIVE SplitFrom(_, _, _, _, _)
SplitFrom(s, sep, i, cur, pieces) ==
    IF i > Len(s) THEN Append(pieces, cur)
    ELSE IF s[i] = sep THEN SplitFrom(s, sep, i + 1, <<>>, Append(pieces, cur))
    ELSE SplitFrom(s, sep, i + 1, Append(cur, s[i]), pieces)

\* A split that stops at the first separator and drops what follows it.
SplitKeepingFirst(s, sep) == <<SplitFrom(s, sep, 1, <<>>, <<>>)[1]>>

Split(s, sep) == SplitFrom(s, sep, 1, <<>>, <<>>)

\* sep in s
Contains(s, sep) == \E i \in 1..Len(s) : s[i] = sep

\* str.split(sep, 1) of a str that contains sep.
SplitOnce(s, sep) ==
    LET i == Min({j \in 1..Len(s) : s[j] = sep})
    IN  <<SubSeq(s, 1, i - 1), SubSeq(s, i + 1, Len(s))>>

\* The digits int() reads after an optional sign.
Unsigned(s) == IF s /= <<>> /\ Head(s) \in {"+", "-"} THEN Tail(s) ELSE s

\* Whether int(s) returns: otherwise it raises ValueError.
IsInt(s) ==
    /\ Unsigned(Strip(s)) /= <<>>
    /\ \A i \in 1..Len(Unsigned(Strip(s))) : IsDigit(Unsigned(Strip(s))[i])

RECURSIVE Decimal(_, _, _)
Decimal(digits, i, value) ==
    IF i > Len(digits) THEN value
    ELSE Decimal(digits, i + 1, 10 * value + DigitValue(digits[i]))

\* int(s)
Int_(s) ==
    IF Strip(s) /= <<>> /\ Head(Strip(s)) = "-"
    THEN 0 - Decimal(Unsigned(Strip(s)), 1, 0)
    ELSE Decimal(Unsigned(Strip(s)), 1, 0)

\* The characters of a str, as a str.
RECURSIVE Text(_)
Text(s) == IF s = <<>> THEN "" ELSE Head(s) \o Text(Tail(s))

\* The loop of parse_simultaneous_command from pair k on.
RECURSIVE ParsePairs(_, _, _)
ParsePairs(job_pairs, k, jobs) ==
    IF k > Len(job_pairs) THEN Return(jobs)
    ELSE IF ~Contains(job_pairs[k], ":") THEN Raise("ValueError")
    ELSE LET parts == SplitOnce(Strip(job_pairs[k]), ":")
             user_id == parts[1]
             priority_str == parts[2]
         IN  IF ~IsInt(Strip(priority_str)) THEN Raise("ValueError")
             ELSE ParsePairs(job_pairs, k + 1,
                             Append(jobs, <<Text(Strip(user_id)),
                                            Int_(Strip(priority_str))>>))

parse_simultaneous_command(job_data) ==
    IF Strip(job_data) = <<>> THEN Return(<<>>)
    ELSE ParsePairs(Split(job_data, ","), 1, <<>>)

\* str(priority) of a natural number.
RECURSIVE DecimalText(_)
DecimalText(n) ==
    IF n < 10 THEN <<Digits[n + 1]>>
    ELSE DecimalText(n \div 10) \o <<Digits[(n % 10) + 1]>>

\* The entries a caller types between the commas of a descriptor: user:priority,
\* the same with blanks around its parts, one with no separator, one whose
\* priority is not a number, and nothing at all.
Entries ==
    {[kind |-> "pair", user_id |-> u, priority |-> p] : u \in Users, p \in Priorities}
    \cup {[kind |-> k, user_id |-> u, priority |-> 1] :
              k \in {"padded", "no_separator", "not_integer"}, u \in Users}
    \cup {[kind |-> "empty", user_id |-> "", priority |-> 0]}

EntryText(entry) ==
    CASE entry.kind = "pair" ->
             <<entry.user_id, ":">> \o DecimalText(entry.priority)
      [] entry.kind = "padded" ->
             <<" ", entry.user_id, " ", ":", " ">> \o DecimalText(entry.priority)
                 \o <<" ">>
      [] entry.kind = "no_separator" ->
             <<entry.user_id>> \o DecimalText(entry.priority)
      [] entry.kind = "not_integer" -> <<entry.user_id, ":", "x">>
      [] OTHER -> <<>>

\* The descriptors typed: up to MaxBatch entries, blanks around the first only.
EntryLists ==
    {entries \in UNION {[1..n -> Entries] : n \in 0..MaxBatch} :
        \A k \in 2..Len(entries) : entries[k].kind /= "padded"}

\* ",".join of the entries.
RECURSIVE JobData(_)
JobData(entries) ==
    IF entries = <<>> THEN <<>>
    ELSE IF Len(entries) = 1 THEN EntryText(entries[1])
    ELSE EntryText(entries[1]) \o <<",">> \o JobData(Tail(entries))

Descriptors == {JobData(entries) : entries \in EntryLists}

\* parse_simultaneous_command on each of them.
Parsed == [job_data \in Descriptors |-> parse_simultaneous_command(job_data)]

\* PrintSystem.add_simultaneous_jobs on the descriptor the entries typed make
\* (main.typed keeps them while the call runs).  When parse_simultaneous_command raises,
\* control goes to the except clause.  Otherwise the step goes up to the point
\* where handle_simultaneous_submissions has submitted every job to the pool,
\* whose threads have taken the first max_workers of them.
AddSimultaneousJobs(entries) ==
    /\ obj \in SystemObjs
    /\ main.pc = "idle"
    /\ LET job_data == JobData(entries)
           jobs == Parsed[job_data].value
       IN  IF Parsed[job_data].raised /= ""
           THEN /\ main' = [main EXCEPT !.pc = "except", !.typed = entries,
                                        !.out = Parsed[job_data].raised]
                /\ UNCHANGED <<h, w_pc>>
           ELSE /\ main' = [main EXCEPT !.pc = "batch", !.typed = entries]
                /\ IF jobs = <<>>
                   THEN /\ h' = [NoBatch EXCEPT !.pc = "ended",
                                                !.initial_size = cq_size,
                                                !.out = Return(NoJobsResult)]
                        /\ UNCHANGED w_pc
                   ELSE /\ h' = [NoBatch EXCEPT !.pc = "collecting", !.jobs = jobs,
                                                !.initial_size = cq_size]
                        /\ w_pc' = [i \in Submissions |->
                                       IF i <= MaxWorkers(jobs) THEN "sleeping"
                                       ELSE IF i <= Len(jobs) THEN "queued"
                                       ELSE "none"]
    /\ gs' = NoStatusCall
    /\ UNCHANGED <<obj, esVars, last, pqVars, cqVars, enq, proc, s_lock, s_job_counter,
                   jm_jobs, h_lock, w_result>>

\* The pool has max_workers threads, each running one submission at a time and
\* taking the oldest one still queued when it is done with its own: submission i
\* is done, and its thread goes on.
WorkerDone(pcs, i) ==
    LET queued == {j \in Submissions : pcs[j] = "queued"}
    IN  [j \in Submissions |->
            IF j = i THEN "done"
            ELSE IF queued /= {} /\ j = Min(queued) THEN "sleeping"
            ELSE pcs[j]]

\* _submit_single_job entering its critical section without waiting for the lock.
WorkerAcquireUnlocked(i) ==
    /\ w_pc[i] = "sleeping"
    /\ h_lock' = i
    /\ w_pc' = [w_pc EXCEPT ![i] = "check_full"]
    /\ UNCHANGED <<obj, esVars, last, pqVars, cqVars, sysVars, h, w_result>>

\* _submit_single_job: with self._submission_lock.
WorkerAcquire(i) ==
    /\ w_pc[i] = "sleeping"
    /\ h_lock = NoWorker
    /\ h_lock' = i
    /\ w_pc' = [w_pc EXCEPT ![i] = "check_full"]
    /\ UNCHANGED <<obj, esVars, last, pqVars, cqVars, sysVars, h, w_result>>

\* _submit_single_job: the test of is_full, then the call of enqueue.
WorkerCheckFull(i) ==
    /\ w_pc[i] = "check_full"
    /\ IF is_full(cq_size)
       THEN /\ w_result' = [w_result EXCEPT ![i] =
                               [success |-> FALSE, job_id |-> 0,
                                message |-> "Queue full when submitting job"]]
            /\ w_pc' = WorkerDone(w_pc, i)
            /\ h_lock' = NoWorker
            /\ UNCHANGED enq
       ELSE /\ enq' = CallEnqueue(i, h.jobs[i][1], h.jobs[i][2])
            /\ w_pc' = [w_pc EXCEPT ![i] = "enqueue"]
            /\ UNCHANGED <<h_lock, w_result>>
    /\ UNCHANGED <<obj, esVars, last, pqVars, cqVars, proc, main, s_lock, s_job_counter,
                   jm_jobs, gs, h>>

\* _submit_single_job from the return of enqueue on: the job id is read from
\* job_counter, the lock released, the dictionary returned.
WorkerAfterEnqueue(i) ==
    /\ w_pc[i] = "enqueue"
    /\ enq.caller = i
    /\ enq.pc = "returned"
    /\ w_result' = [w_result EXCEPT ![i] =
                       IF enq.result
                       THEN [success |-> TRUE, job_id |-> cq_job_counter,
                             message |-> "Successfully enqueued job"]
                       ELSE [success |-> FALSE, job_id |-> 0,
                             message |-> "Failed to enqueue job"]]
    /\ w_pc' = WorkerDone(w_pc, i)
    /\ h_lock' = NoWorker
    /\ enq' = NoCall
    /\ UNCHANGED <<obj, esVars, last, pqVars, cqVars, proc, main, s_lock, s_job_counter,
                   jm_jobs, gs, h>>

\* The body of the loop over as_completed for the future of submission i: the
\* subscript of future_to_job stands before the try.
HandlerCollect(i) ==
    /\ h.pc = "collecting"
    /\ w_pc[i] = "done"
    /\ i \notin h.collected
    /\ h' = IF Subscriptable(FutureToJobKind)
            THEN [h EXCEPT !.collected = @ \cup {i},
                           !.results = Append(@,
                               [user_id |-> h.jobs[i][1], priority |-> h.jobs[i][2],
                                original_index |-> i - 1,
                                success |-> w_result[i].success,
                                job_id |-> w_result[i].job_id,
                                message |-> w_result[i].message])]
            ELSE [h EXCEPT !.pc = "raising"]
    /\ UNCHANGED <<obj, esVars, last, pqVars, cqVars, sysVars, h_lock, w_pc, w_result>>

\* The end of the with block, which waits for every worker, and what follows it:
\* the exception goes on to the caller, or the results are sorted and counted.
HandlerExit ==
    /\ \A i \in Submissions : w_pc[i] \in {"none", "done"}
    /\ \/ h.pc = "raising"
       \/ h.pc = "collecting" /\ h.collected = 1..Len(h.jobs)
    /\ h' = IF h.pc = "raising"
            THEN [h EXCEPT !.pc = "ended", !.out = Raise("TypeError")]
            ELSE [h EXCEPT !.pc = "ended",
                           !.results = SortedByOriginalIndex(h.results),
                           !.out = Return(BatchResult(
                                       SortedByOriginalIndex(h.results)))]
    /\ UNCHANGED <<obj, esVars, last, pqVars, cqVars, sysVars, h_lock, w_pc, w_result>>

\* format_submission_results reads the keys of the dictionary it is given.
FormatRaises(result) == "results" \notin DOMAIN result

\* add_simultaneous_jobs registers every job of the batch under the value
\* job_counter has after the batch.
RegisteredBatch(jobs) == [k \in 1..Len(jobs) |-> cq_job_counter]

\* The except clause of add_simultaneous_jobs: it prints the error and the call
\* returns.
AddSimultaneousJobsExcept ==
    /\ main.pc = "except"
    /\ main' = [main EXCEPT !.pc = "idle", !.typed = <<>>]
    /\ UNCHANGED <<obj, esVars, last, pqVars, cqVars, gs, enq, proc, s_lock, s_job_counter,
                   jm_jobs, batchVars>>

\* PrintSystem.add_simultaneous_jobs from the return of the handler on.  Its
\* except clause names ValueError alone.
AddSimultaneousJobsReturn ==
    /\ main.pc = "batch"
    /\ h.pc = "ended"
    /\ IF h.out.raised /= ""
       THEN /\ main' = [main EXCEPT !.pc = IF h.out.raised = "ValueError"
                                           THEN "idle" ELSE "raised",
                                    !.out = h.out.raised]
            /\ UNCHANGED jm_jobs
       ELSE /\ jm_jobs' = jm_jobs \o RegisteredBatch(h.jobs)
            /\ main' = IF FormatRaises(h.out.value)
                       THEN [main EXCEPT !.pc = "raised", !.out = "KeyError"]
                       ELSE [main EXCEPT !.pc = "idle", !.out = "None"]
    /\ UNCHANGED <<obj, esVars, last, pqVars, cqVars, gs, enq, proc, s_lock, s_job_counter,
                   batchVars>>

Worker(i) ==
    \/ WorkerAcquire(i)
    \/ WorkerCheckFull(i)
    \/ WorkerAfterEnqueue(i)

Batch ==
    \/ \E i \in Submissions : Worker(i)
    \/ \E i \in Submissions : HandlerCollect(i)
    \/ HandlerExit

MainStep ==
    \/ \E u \in Users, p \in Priorities : AddJobCall(u, p)
    \/ AddJobReturn
    \/ \E entries \in (IF main.pc = "idle" THEN EntryLists ELSE {}) :
           AddSimultaneousJobs(entries)
    \/ AddSimultaneousJobsExcept
    \/ AddSimultaneousJobsReturn

\* ------------------------------------------------------ specifications
\* Every object as its constructor leaves it.
Constructed ==
    /\ last = Returned("__init__", TRUE, None, <<>>)
    /\ pq_queue = <<>>
    /\ pq_lock = NoThread
    /\ pq_pc = [t \in Threads |-> "idle"]
    /\ pq_issued = 0
    /\ cq_queue = [i \in 0..(capacity - 1) |-> None]
    /\ cq_front = 0
    /\ cq_rear = -1
    /\ cq_size = 0
    /\ cq_job_counter = 0
    /\ enq = NoCall
    /\ proc = ProcIdle
    /\ main = [pc |-> "idle", job_id |-> 0, out |-> "", typed |-> <<>>]
    /\ s_lock = FALSE
    /\ s_job_counter = 0
    /\ jm_jobs = <<>>
    /\ gs = NoStatusCall
    /\ h = NoBatch
    /\ h_lock = NoWorker
    /\ w_pc = [i \in Submissions |-> "none"]
    /\ w_result = [i \in Submissions |-> NoResult]
    /\ es_events = <<>>
    /\ es_tick_count = 0
    /\ es_issued = 0
    /\ es_added = <<>>

NextPQ == \E t \in Threads : PQStep(t)

\* One of the two queues or the event simulator, used by one caller at a time.
Init ==
    /\ obj \in {"PrintQueueManager", "CircularPrintQueue", "EventSimulator"}
    /\ Constructed

Next == NextPQ \/ NextCQ \/ NextES

Spec == Init /\ [][Next]_vars

\* PrintSystem with run() not called: the main thread and the workers of a batch.
InitBatch == obj = "PrintSystem" /\ Constructed

NextBatch == MainStep \/ EnqStep \/ StatusStep \/ Batch

SpecBatch == InitBatch /\ [][NextBatch]_vars

\* PrintSystem with run() called: the thread of process_jobs beside them.
InitSystem == obj = "PrintSystem.run" /\ Constructed

NextSystem == MainStep \/ EnqStep \/ StatusStep \/ Batch \/ ProcessJobs

SpecSystem == InitSystem /\ [][NextSystem]_vars

\* ------------------------------------------------------------- claims
\* The comparator of the specification: a may stand before b when its priority is
\* higher, or equal with a waiting time at least as long.
MayPrecede(a_priority, a_wait, b_priority, b_wait) ==
    \/ a_priority > b_priority
    \/ a_priority = b_priority /\ a_wait >= b_wait

JobsOrdered(q) ==
    \A i, j \in 1..Len(q) :
        i < j => MayPrecede(q[i].priority, q[i].waiting_time,
                            q[j].priority, q[j].waiting_time)

\* The same on the strings of CircularPrintQueue.get_status.
StatusOrdered(status) ==
    \A i, j \in 1..Len(status) :
        i < j => MayPrecede(status[i][4], status[i][5], status[j][4], status[j][5])

\* C1, for PrintQueueManager: while every job admitted is still resident, the
\* snapshot get_status returns is ordered by the comparator.
C1_ManagerSnapshotSorted ==
    (obj = "PrintQueueManager" /\ last.op = "get_status"
        /\ Len(pq_queue) = pq_issued)
    => JobsOrdered(last.jobs)

\* C1, for CircularPrintQueue: while every job admitted is still resident, the
\* snapshot get_status returns is ordered by the comparator.
C1_CircularSnapshotSorted ==
    (obj = "CircularPrintQueue" /\ last.op = "get_status"
        /\ cq_size = cq_job_counter)
    => StatusOrdered(last.jobs)

\* C1: after enqueues within the capacity, with ticks between them, the snapshot
\* of get_status is sorted: higher priority first, and among equal priorities the
\* longer waiting time first; for both queues.
C1_SnapshotSorted == C1_ManagerSnapshotSorted /\ C1_CircularSnapshotSorted

\* C2: an enqueue on a queue that holds capacity jobs returns False and changes
\* nothing: the resident jobs, their order and the id counter stay as they were.
C2_FullEnqueueChangesNothing ==
    [][ /\ (obj = "CircularPrintQueue" /\ last'.op = "enqueue"
                /\ cq_size = capacity)
            => (~last'.ok /\ UNCHANGED cqVars)
        /\ (obj = "PrintQueueManager" /\ last'.op = "enqueue_job"
                /\ Len(pq_queue) >= capacity)
            => (~last'.ok /\ UNCHANGED pqVars) ]_vars

\* C2, its case: a full CircularPrintQueue whose slots have wrapped around has
\* just rejected an enqueue.
C2_Witness ==
    /\ obj = "CircularPrintQueue"
    /\ last.op = "enqueue" /\ ~last.ok
    /\ cq_size = capacity /\ cq_front > 0

\* The jobs resident in the ring.
Resident(queue) == {queue[i] : i \in DOMAIN queue} \ {None}

Elements(q) == {q[i] : i \in 1..Len(q)}

\* No job of the set comes strictly before job under the comparator.
IsMaximal(job, jobs) ==
    \A other \in jobs :
        MayPrecede(job.priority, job.waiting_time, other.priority, other.waiting_time)

\* C3, for CircularPrintQueue: dequeue on a non-empty queue returns the
\* comparator-maximal resident job.
C3_CircularDequeueMaximal ==
    [][ (obj = "CircularPrintQueue" /\ last'.op = "dequeue" /\ cq_size > 0)
        => (last'.ok /\ IsMaximal(last'.job, Resident(cq_queue))) ]_vars

\* C3, for PrintQueueManager: dequeue_job on a non-empty queue returns the
\* comparator-maximal resident job.
C3_ManagerDequeueMaximal ==
    [][ (obj = "PrintQueueManager" /\ last'.op = "dequeue_job" /\ pq_queue /= <<>>)
        => (last'.ok /\ IsMaximal(last'.job, Elements(pq_queue))) ]_vars

\* C3: dequeue on a non-empty queue removes and returns the comparator-maximal
\* resident job: no resident job has a higher priority, nor an equal priority
\* with a longer waiting time; for both queues.
C3_DequeueReturnsMaximal ==
    [][ /\ (obj = "CircularPrintQueue" /\ last'.op = "dequeue" /\ cq_size > 0)
            => (last'.ok /\ IsMaximal(last'.job, Resident(cq_queue)))
        /\ (obj = "PrintQueueManager" /\ last'.op = "dequeue_job"
                /\ pq_queue /= <<>>)
            => (last'.ok /\ IsMaximal(last'.job, Elements(pq_queue))) ]_vars

\* C4: a thread that holds the queue lock can take its next step, so that tick
\* runs to its end and releases the lock, and nothing waits for the lock forever.
C4_LockHolderProceeds ==
    \A t \in Threads : pq_lock = t => ENABLED PQStep(t)

\* The queue after k ticks of the clock: each the waiting-time step of tick
\* followed by apply_priority_aging.
RECURSIVE AfterTicks(_, _)
AfterTicks(q, k) ==
    IF k = 0 THEN q ELSE AfterTicks(AgedQueue(WaitingTimesAdvanced(q)), k - 1)

JobWithId(q, job_id) == q[CHOOSE i \in 1..Len(q) : q[i].job_id = job_id]

\* C8: aging happens once per interval: a job just admitted (waiting_time 0, its
\* priority the initial one) has, after w ticks of residency, the priority
\* initial + aging_increment * floor(w / aging_interval).
C8_AgingOncePerInterval ==
    obj = "PrintQueueManager" =>
        \A i \in 1..Len(pq_queue), w \in 1..(2 * aging_interval) :
            pq_queue[i].waiting_time = 0 =>
                JobWithId(AfterTicks(pq_queue, w), pq_queue[i].job_id).priority
                    = pq_queue[i].priority + aging_increment * (w \div aging_interval)

\* C9: after apply_priority_aging the queue is ordered by the comparator:
\* priority descending, and among equal priorities the longer waiting time first.
C9_AgingOrdersQueue ==
    (obj = "PrintQueueManager" /\ last.op = "apply_priority_aging")
    => JobsOrdered(pq_queue)

\* The position of a job in a queue that holds it.
PositionIn(q, job) == CHOOSE i \in 1..Len(q) : q[i] = job

\* s holds jobs of q, each once, in the order q has them.
KeepsOrderOf(s, q) ==
    /\ Elements(s) \subseteq Elements(q)
    /\ \A a, b \in 1..Len(s) : a < b => PositionIn(q, s[a]) < PositionIn(q, s[b])

\* C10: remove_expired_jobs removes exactly the resident jobs whose waiting_time
\* is at least expiry_time; the list it returns holds each of them once, in the
\* order met, and the jobs that remain keep their order.
C10_ExpiryRemovesExactly ==
    [][ (obj = "PrintQueueManager" /\ last'.op = "remove_expired_jobs")
        => /\ Elements(last'.jobs) =
                  {x \in Elements(pq_queue) : x.waiting_time >= expiry_time}
           /\ Elements(pq_queue') =
                  {x \in Elements(pq_queue) : x.waiting_time < expiry_time}
           /\ Len(last'.jobs) + Len(pq_queue') = Len(pq_queue)
           /\ KeepsOrderOf(last'.jobs, pq_queue)
           /\ KeepsOrderOf(pq_queue', pq_queue) ]_vars

\* C10, its case: a sweep has just removed some jobs and left at least two.
C10_Witness ==
    /\ obj = "PrintQueueManager"
    /\ last.op = "remove_expired_jobs"
    /\ last.jobs /= <<>>
    /\ Len(pq_queue) >= 2

\* C2, the same case for PrintQueueManager (not the witness of record).
C2_ManagerCase ==
    /\ obj = "PrintQueueManager"
    /\ last.op = "enqueue_job" /\ ~last.ok
    /\ Len(pq_queue) = capacity

\* A call of handle_simultaneous_submissions with at least one job has ended.
BatchEnded == h.pc = "ended" /\ Len(h.jobs) >= 1

\* C5: a batch of N >= 1 submissions (more than max_threads of them included)
\* returns an aggregate holding N per-submission results, the original indices
\* 0..N-1 once each and in submission order, with success_count + failed_count = N
\* and success_count at most capacity less the occupancy at the call.
C5_BatchReturnsAllResults ==
    (BatchEnded /\ max_threads < Len(h.jobs)) =>
        /\ h.out.raised = ""
        /\ "results" \in DOMAIN h.out.value
        /\ Len(h.out.value.results) = Len(h.jobs)
        /\ \A k \in 1..Len(h.jobs) : h.out.value.results[k].original_index = k - 1
        /\ h.out.value.success_count + h.out.value.failed_count = Len(h.jobs)
        /\ h.out.value.success_count <= capacity - h.initial_size

\* C6: a batch that parsed never raises to its caller: the handler and
\* add_simultaneous_jobs return normally, a submission that met a full queue is
\* reported as a failed result with a message, and every submission is attempted
\* and reported.
C6_BatchNeverRaises ==
    /\ main.pc /= "raised"
    /\ BatchEnded =>
        /\ h.out.raised = ""
        /\ \A i \in 1..Len(h.jobs) : w_pc[i] = "done"
        /\ h.collected = 1..Len(h.jobs)
        /\ \A k \in 1..Len(h.results) :
               ~h.results[k].success => h.results[k].message /= ""

\* No operation of the queue is in the middle of its execution.
NoQueueOperationRunning ==
    /\ enq.pc \in {"none", "returned"}
    /\ \/ proc.pc = "loop"
       \/ proc.pc = "update" /\ proc.i = 0

NonEmptySlots == {i \in DOMAIN cq_queue : cq_queue[i] /= None}

\* C7: under every interleaving of the threads of PrintSystem, a state with no
\* queue operation in the middle of its execution has size equal to the number
\* of non-empty slots, and size at most capacity.
C7_SizeCountsSlots ==
    NoQueueOperationRunning =>
        /\ cq_size = Cardinality(NonEmptySlots)
        /\ cq_size <= capacity

\* The jobs in the slots of the ring, whatever size says.
InSlots == {cq_queue[i] : i \in NonEmptySlots}

\* C11: update_waiting_times is atomic with respect to the enqueues and dequeues
\* of the other threads: with no queue operation in the middle of its execution,
\* a job admitted earlier (the smaller job_id) has received every tick a job
\* admitted later has received, so its waiting_time is at least as long.
C11_TickAtomic ==
    NoQueueOperationRunning =>
        \A a, b \in InSlots :
            a.job_id < b.job_id => a.waiting_time >= b.waiting_time

\* C12: get_status run beside the enqueues and dequeues of the other threads of
\* PrintSystem returns the ordered contents the queue had at one instant between
\* the start of the call and its return.
C12_StatusIsSnapshot ==
    (main.out = "get_status" /\ main.pc = "idle") => gs.status \in gs.seen

\* The workers between their test of is_full and their read of job_counter.
Admitting == {i \in Submissions : w_pc[i] \in {"check_full", "enqueue"}}

\* The successful workers hold different job ids.
ReportedIdsDiffer ==
    \A i, j \in Submissions :
        (i /= j /\ w_pc[i] = "done" /\ w_pc[j] = "done"
              /\ w_result[i].success /\ w_result[j].success)
            => w_result[i].job_id /= w_result[j].job_id

\* The step in which worker i returns its dictionary after its call of enqueue.
ReturnsAfterEnqueue(i) == w_pc[i] = "enqueue" /\ w_pc'[i] = "done"

\* C13: admission inside a batch is serialized: at most one worker at a time is
\* between its test of is_full and the read of job_counter after its enqueue, the
\* job_id a successful worker reports is the id of the job its own call of enqueue
\* created, and no two workers report the same job_id.
C13_AdmissionSerialized ==
    [][ /\ Cardinality(Admitting') <= 1
        /\ ReportedIdsDiffer'
        /\ \A i \in Submissions :
               (ReturnsAfterEnqueue(i) /\ w_result'[i].success)
                   => /\ enq.caller = i
                      /\ w_result'[i].job_id = enq.new_job.job_id ]_vars

\* Two workers of a pool of two have been admitted one after the other, the
\* first with its job id reported, while a third waits for the lock.
C13_Witness ==
    \E i, j, k \in Submissions :
        /\ w_pc[i] = "done" /\ w_result[i].success
        /\ w_pc[j] = "enqueue" /\ enq.pc = "returned" /\ enq.result
        /\ w_pc[k] = "sleeping"

\* The step is a successful call of CircularPrintQueue.enqueue.
Admits == obj = "CircularPrintQueue" /\ last'.op = "enqueue" /\ last'.ok

\* C14: the ids CircularPrintQueue assigns are strictly increasing in admission
\* order and never reused: job_counter, which bounds every id assigned so far,
\* never goes down, and the job a successful enqueue admits gets an id above it
\* and above the id of every resident job, whatever enqueues (accepted or
\* rejected), dequeues and ticks came before.
C14_IdsIncrease ==
    [][ obj = "CircularPrintQueue" =>
          /\ cq_job_counter' >= cq_job_counter
          /\ \A job \in Resident(cq_queue') : job.job_id <= cq_job_counter'
          /\ last'.op = "dequeue" => last'.job.job_id <= cq_job_counter'
          /\ Admits =>
               /\ cq_queue'[cq_rear'].job_id > cq_job_counter
               /\ cq_queue'[cq_rear'].job_id = cq_job_counter'
               /\ \A job \in Resident(cq_queue) :
                      job.job_id < cq_queue'[cq_rear'].job_id ]_vars

\* A job admitted after more admissions than the ring has slots (a dequeue came
\* between), beside a job that has been ticked.
C14_Witness ==
    /\ obj = "CircularPrintQueue"
    /\ last.op = "enqueue" /\ last.ok
    /\ cq_job_counter > capacity
    /\ \E job \in Resident(cq_queue) : job.waiting_time > 0

\* The slots after k calls of update_waiting_times with nothing between them.
RECURSIVE TickedTimes(_, _)
TickedTimes(queue, k) ==
    IF k = 0 THEN queue ELSE TickedTimes(SlotsTicked(queue), k - 1)

\* A snapshot without its waiting times: owner, id and priority, in order.
WithoutWait(status) == [n \in 1..Len(status) |-> SubSeq(status[n], 1, 4)]

\* C15: k ticks with no dequeue or expiry between them add exactly k to the
\* waiting_time of every resident job of CircularPrintQueue and leave ids, owners,
\* priorities, order and size as they were, also when the occupied window wraps
\* around the end of the slots.
C15_TicksAddExactlyK ==
    [][ obj = "CircularPrintQueue" =>
          /\ \A k \in 1..MaxWait : \A i \in DOMAIN cq_queue :
                 TickedTimes(cq_queue, k)[i] =
                     IF cq_queue[i] = None THEN None
                     ELSE [cq_queue[i] EXCEPT !.waiting_time = @ + k]
          /\ \A k \in 1..MaxWait :
                 WithoutWait(Status(TickedTimes(cq_queue, k), cq_front, cq_size))
                     = WithoutWait(Status(cq_queue, cq_front, cq_size))
          /\ last'.op = "update_waiting_times" =>
                 /\ cq_queue' = TickedTimes(cq_queue, 1)
                 /\ UNCHANGED <<cq_front, cq_rear, cq_size, cq_job_counter>> ]_vars

\* A tick on a window that wraps around the end of the slots, every resident job
\* ticked at least twice.
C15_Witness ==
    /\ obj = "CircularPrintQueue"
    /\ last.op = "update_waiting_times"
    /\ cq_size >= 2
    /\ cq_rear < cq_front
    /\ \A job \in Resident(cq_queue) : job.waiting_time >= 2

\* The resident jobs (for the event simulator: its active events) as records of
\* identity, waiting time and priority.
Residents(pq, cq, events) ==
    IF obj = "PrintQueueManager"
    THEN {[id |-> j.job_id, waiting_time |-> j.waiting_time, priority |-> j.priority]
             : j \in Elements(pq)}
    ELSE IF obj = "CircularPrintQueue"
    THEN {[id |-> j.job_id, waiting_time |-> j.waiting_time, priority |-> j.priority]
             : j \in Resident(cq)}
    ELSE {[id |-> e.name, waiting_time |-> e.waiting_time, priority |-> e.priority]
             : e \in Elements(events)}

Ids(residents) == {r.id : r \in residents}

\* The step removes nothing: it is neither a dequeue nor an expiry sweep nor a
\* tick of the event simulator (which removes the expired events).
KeepsEveryJob ==
    last'.op \notin {"dequeue", "dequeue_job", "remove_expired_jobs",
                      "EventSimulator.tick"}

\* What a step does to the resident jobs: every job resident before and after it
\* has a waiting_time and a priority at least as high, no id vanishes in a step
\* that removes nothing, and no two resident jobs share an id.
MonotoneStep ==
    LET before == Residents(pq_queue, cq_queue, es_events)
        after == Residents(pq_queue', cq_queue', es_events')
    IN  /\ \A b \in before : \A a \in after :
               a.id = b.id => (a.waiting_time >= b.waiting_time
                               /\ a.priority >= b.priority)
        /\ KeepsEveryJob => Ids(before) \subseteq Ids(after)
        /\ Cardinality(Ids(after)) = Cardinality(after)

\* C16: while a job is resident, no operation of the queue (enqueue or dequeue of
\* other jobs, tick, aging, expiry sweep) lowers its waiting_time or its priority
\* or changes its job_id.
C16_ResidentJobsMonotone ==
    [][(obj \in {"PrintQueueManager", "CircularPrintQueue", "EventSimulator"})
           => MonotoneStep]_vars

\* A job of PrintQueueManager boosted by apply_priority_aging beside another
\* resident job.
C16_Witness ==
    /\ obj = "PrintQueueManager"
    /\ last.op = "apply_priority_aging"
    /\ Len(pq_queue) >= 2
    /\ \E j \in Elements(pq_queue) : j.priority > MaxPriority

\* The queue of PrintQueueManager after one tick that runs its steps in order:
\* waiting times advanced, then aging, then the expiry sweep.
QueueAfterTick(q) ==
    ExpiryScan(AgedQueue(WaitingTimesAdvanced(q)), 1, <<>>, <<>>)[2]

\* An event after steps (1) and (2) of one tick.
TickedAndAged(event) ==
    IF should_age(EventTick(event)) THEN apply_aging(EventTick(event))
    ELSE EventTick(event)

\* The events of EventSimulator after one tick that runs its steps in order, on
\* the waiting time the tick has advanced: the survivors, sorted as tick sorts.
EventsAfterTick(events) ==
    BubbleSort(SelectSeq([k \in 1..Len(events) |-> TickedAndAged(events[k])],
                         LAMBDA event : ~is_expired(event)), 0)

EventSimulatorTickInOrder ==
    last'.op = "EventSimulator.tick" => es_events' = EventsAfterTick(es_events)

\* C17: a tick advances the waiting time of every resident job, then applies
\* aging, then evaluates expiry, both on the advanced waiting time: the call of
\* PrintQueueManager.tick, and of EventSimulator.tick, leaves the jobs these three
\* steps give.
C17_TickOrder ==
    [][ /\ last'.op = "tick" => pq_queue' = QueueAfterTick(pq_queue)
        /\ EventSimulatorTickInOrder ]_vars

\* ------------------------------------------------ PrintQueueManager, capacity 3
\* The (user_id, priority) arguments of enqueue_job in the scenario of four owners.
ScenarioJobs == {<<"A", 1>>, <<"B", 5>>, <<"C", 3>>, <<"D", 9>>}

InitScenario == obj = "PrintQueueManager" /\ Constructed

\* enqueue_job with the arguments of the scenario in any order, dequeue_job and
\* get_status.
NextScenario ==
    \E t \in Threads :
        \/ \E job \in ScenarioJobs : EnqueueJob(t, job[1], job[2])
        \/ DequeueJob(t)
        \/ PQGetStatus(t)

SpecScenario == InitScenario /\ [][NextScenario]_vars

Owners(q) == [i \in 1..Len(q) |-> q[i].user_id]

\* A (priority 1), B (priority 5) and C (priority 3) were enqueued in that order
\* into the empty queue and none has left it.
ScenarioSubmitted ==
    /\ capacity = 3
    /\ pq_issued = 3
    /\ {<<job.job_id, job.user_id, job.priority>> : job \in {pq_queue[i] : i \in 1..Len(pq_queue)}}
         = {<<1, "A", 1>>, <<2, "B", 5>>, <<3, "C", 3>>}

\* C18: with capacity 3, after A (priority 1), B (priority 5), C (priority 3) are
\* enqueued in that order the snapshot is [B, C, A]; an enqueue of D (priority 9)
\* then fails and changes nothing; a dequeue then returns B and leaves [C, A].
C18_Scenario ==
    [][ ScenarioSubmitted =>
          /\ Owners(pq_queue) = <<"B", "C", "A">>
          /\ last'.op = "get_status" => Owners(last'.jobs) = <<"B", "C", "A">>
          /\ last'.op = "enqueue_job" => ~last'.ok /\ pq_queue' = pq_queue
          /\ last'.op = "dequeue_job" =>
                 /\ last'.job.user_id = "B"
                 /\ Owners(pq_queue') = <<"C", "A">> ]_vars

\* A blank descriptor has no entries.
Blank(entries) == entries /= <<>> /\ Strip(JobData(entries)) = <<>>

\* Every entry is owner:integer.
WellFormed(entries) ==
    \A k \in 1..Len(entries) : entries[k].kind \in {"pair", "padded"}

Pairs(entries) ==
    [k \in 1..Len(entries) |-> <<entries[k].user_id, entries[k].priority>>]

\* A step of the main thread that enqueues nothing, starts no batch and leaves
\* the queue, the id counters and the registry as they are.
NothingSubmitted ==
    UNCHANGED <<cqVars, enq, s_job_counter, jm_jobs, h, w_pc, w_result>>

\* C19: parse_simultaneous_command returns the (owner, priority) pairs of a
\* descriptor in descriptor order when every entry is owner:integer, and raises
\* ValueError when an entry lacks the ':' or has a priority that is no integer;
\* add_simultaneous_jobs then enqueues nothing and leaves the queue, the id
\* counter and the registry unchanged.
C19_ParseAllOrNothing ==
    [][ /\ (main.pc = "idle" /\ main'.pc \in {"batch", "except"}) =>
              IF WellFormed(main'.typed)
              THEN main'.pc = "batch" /\ h'.jobs = Pairs(main'.typed)
              ELSE Blank(main'.typed) \/ /\ main'.pc = "except"
                                         /\ main'.out = "ValueError"
                                         /\ NothingSubmitted
        /\ main.pc = "except" => main'.pc = "idle" /\ NothingSubmitted ]_vars

\* A descriptor whose first entry is well formed and whose last is not has made
\* parse_simultaneous_command raise, with a job in the queue and in the registry.
C19_Witness ==
    /\ main.pc = "except"
    /\ main.out = "ValueError"
    /\ cq_size > 0
    /\ jm_jobs /= <<>>
    /\ Len(main.typed) = MaxBatch
    /\ main.typed[1].kind = "pair"
    /\ ~WellFormed(main.typed)

\* No call of add_job or add_simultaneous_jobs is in progress: the last one has
\* returned, or has ended by raising.
NoCallRunning == main.pc \in {"idle", "raised"}

\* The ids CircularPrintQueue has assigned: it counts the jobs it admits.
AssignedIds == 1..cq_job_counter

\* C20: after any sequence of add_job and add_simultaneous_jobs calls, rejected
\* ones included, the registry (JobManager.jobs) holds exactly one entry per
\* admitted job, under the id CircularPrintQueue assigned to it, and none for a
\* rejected submission.
C20_RegistryMatchesAdmitted ==
    NoCallRunning =>
        /\ Len(jm_jobs) = cq_job_counter
        /\ {jm_jobs[k] : k \in 1..Len(jm_jobs)} = AssignedIds

\* dequeue of CircularPrintQueue on the empty queue, and the enqueue and dequeue
\* that follow it.
EmptyDequeue ==
    /\ (last'.op = "dequeue" /\ is_empty(cq_size)) =>
           /\ last' = Returned("dequeue", FALSE, None, <<>>)
           /\ UNCHANGED cqVars
    /\ (last = Returned("dequeue", FALSE, None, <<>>) /\ last'.op = "enqueue") =>
           /\ last'.ok
           /\ cq_size' = 1
           /\ cq_queue'[cq_front'].job_id = cq_job_counter'
    /\ (last.op = "enqueue" /\ last.ok /\ cq_size = 1 /\ last'.op = "dequeue") =>
           /\ last'.ok
           /\ last'.job.job_id = cq_job_counter

\* The same for dequeue_job and enqueue_job of PrintQueueManager.
EmptyDequeueJob ==
    /\ (last'.op = "dequeue_job" /\ pq_queue = <<>>) =>
           /\ last' = Returned("dequeue_job", FALSE, None, <<>>)
           /\ UNCHANGED pqVars
    /\ (last = Returned("dequeue_job", FALSE, None, <<>>) /\ last'.op = "enqueue_job") =>
           /\ last'.ok
           /\ Len(pq_queue') = 1
           /\ pq_queue'[1].job_id = pq_issued'
    /\ (last.op = "enqueue_job" /\ last.ok /\ Len(pq_queue) = 1
            /\ last'.op = "dequeue_job") =>
           /\ last'.ok
           /\ last'.job.job_id = pq_issued

\* C21: a dequeue on an empty queue returns None and leaves size, front, rear,
\* the slots and the id counter as they are, also after wrap-around; an enqueue
\* that follows succeeds, and its job is the next one dequeued.
C21_EmptyDequeue ==
    [][ /\ obj = "CircularPrintQueue" => EmptyDequeue
        /\ obj = "PrintQueueManager" => EmptyDequeueJob ]_vars

\* dequeue has returned None on a queue that is empty after its indices wrapped.
C21_Witness ==
    /\ obj = "CircularPrintQueue"
    /\ last = Returned("dequeue", FALSE, None, <<>>)
    /\ cq_job_counter > capacity
    /\ cq_front /= 0

\* The snapshot with the job of the given id deleted.
Without(q, job_id) == SelectSeq(q, LAMBDA job : job.job_id /= job_id)

\* C22: a successful enqueue_job adds exactly the new job and leaves the relative
\* order of the jobs resident before it unchanged: the snapshot after the call,
\* the new job deleted, is the snapshot before the call.
C22_InsertionIsPositional ==
    [][ (obj = "PrintQueueManager" /\ last'.op = "enqueue_job" /\ last'.ok) =>
            /\ Len(pq_queue') = Len(pq_queue) + 1
            /\ Without(pq_queue', pq_issued') = pq_queue ]_vars

\* The resident jobs with the given id.
ResidentWithId(job_id) == {job \in InSlots : job.job_id = job_id}

\* C23: get_job_by_id returns the resident job with the given id if one is
\* resident and None otherwise, also for the id of a job already dequeued, and
\* changes no queue state.
C23_LookupIsReadOnly ==
    [][ (obj = "CircularPrintQueue" /\ last'.op = "get_job_by_id") =>
            /\ UNCHANGED cqVars
            /\ IF ResidentWithId(last'.jobs[1]) = {}
               THEN last'.job = None /\ ~last'.ok
               ELSE last'.job \in ResidentWithId(last'.jobs[1]) /\ last'.ok ]_vars

\* The id of a job already dequeued has been looked up, after wrap-around, with
\* other jobs resident.
C23_Witness ==
    /\ obj = "CircularPrintQueue"
    /\ last.op = "get_job_by_id"
    /\ last.jobs[1] \in 1..cq_job_counter
    /\ last.job = None
    /\ cq_size > 0
    /\ cq_rear < cq_front

EventsIn(events) == {events[k] : k \in 1..Len(events)}

Names(events) == {event.name : event \in EventsIn(events)}

\* The events a tick has to remove: those whose advanced waiting time reaches
\* their expiry time.
Expiring(events) ==
    {event \in EventsIn(events) : event.waiting_time + 1 >= event.expiry_time}

\* C24: EventSimulator.tick visits every event resident at its start exactly
\* once although it removes events during the scan: the waiting time of each is
\* advanced by exactly 1, exactly those whose advanced waiting time has reached
\* their expiry time are removed (one EXPIRED line each), and no event resident
\* after the tick has waiting_time >= expiry_time.
C24_TickVisitsEachOnce ==
    [][ (obj = "EventSimulator" /\ last'.op = "EventSimulator.tick") =>
            /\ Len(es_events') = Cardinality(Names(es_events'))
            /\ Names(es_events')
                   = Names(es_events) \ {event.name : event \in Expiring(es_events)}
            /\ \A old \in EventsIn(es_events), new \in EventsIn(es_events') :
                   old.name = new.name => new.waiting_time = old.waiting_time + 1
            /\ \A event \in EventsIn(es_events') : ~is_expired(event)
            /\ \A event \in EventsIn(es_events) :
                   Cardinality({k \in 1..Len(last'.jobs) :
                                   last'.jobs[k] = <<"EXPIRED", event.name>>})
                       = IF event \in Expiring(es_events) THEN 1 ELSE 0 ]_vars

\* A tick has removed the first event of the list and kept the one after it,
\* which has ticked as often as the simulator.
C24_Witness ==
    /\ obj = "EventSimulator"
    /\ last.op = "EventSimulator.tick"
    /\ last.jobs /= <<>>
    /\ last.jobs[1] = <<"EXPIRED", 1>>
    /\ Len(es_events) = 1
    /\ es_events[1].name = 2
    /\ es_events[1].waiting_time = es_tick_count

\* The k-th slot from front, k counted from 0.
SlotFromFront(k) == (cq_front + k) % capacity

\* The size consecutive slots starting at front.
SlotsInUse == {SlotFromFront(k) : k \in 0..(cq_size - 1)}

\* The parts of the ring invariant that do not mention rear.
RingSlots ==
    /\ 0 <= cq_size
    /\ cq_size <= capacity
    /\ NonEmptySlots = SlotsInUse
    /\ \A j, k \in 0..(cq_size - 1) :
           j < k => cq_queue[SlotFromFront(j)].job_id < cq_queue[SlotFromFront(k)].job_id

\* C25 as stated: under sequential use every reachable state of
\* CircularPrintQueue has 0 <= size <= capacity, rear = (front + size - 1) mod
\* capacity, and its non-empty slots are exactly the size consecutive slots from
\* front, holding jobs in ascending id order.
C25_RingInvariantAsStated ==
    obj = "CircularPrintQueue" =>
        /\ cq_rear = (cq_front + cq_size - 1) % capacity
        /\ RingSlots

\* C25 amended: the same, with rear congruent to front + size - 1 modulo capacity
\* (rear is -1 from construction until the first enqueue, and equal to
\* (front + size - 1) mod capacity from then on).
C25_RingInvariant ==
    obj = "CircularPrintQueue" =>
        /\ (cq_rear + 1) % capacity = (cq_front + cq_size) % capacity
        /\ cq_job_counter > 0 => cq_rear = (cq_front + cq_size - 1) % capacity
        /\ cq_job_counter = 0 => cq_rear = -1
        /\ RingSlots

\* The ring is full with its jobs wrapped around the end of the list.
C25_Witness ==
    /\ obj = "CircularPrintQueue"
    /\ cq_size = capacity
    /\ cq_front /= 0
    /\ last.op = "enqueue"

\* Every worker of the batch has finished.
AllWorkersDone ==
    /\ h.jobs /= <<>>
    /\ \A i \in 1..Len(h.jobs) : w_pc[i] = "done"

\* The jobs in the slots that were not resident when the batch began.
AdmittedByBatch == Cardinality(NonEmptySlots) - h.initial_size

\* C26: while a batch of N submissions runs against a queue with f free slots and
\* no other thread touches the queue, under every interleaving of the workers the
\* queue never holds more than capacity jobs and no resident job is removed or
\* overwritten; once all workers have finished exactly min(N, f) jobs have been
\* admitted, and the ids in the queue are pairwise distinct.
C26_BatchAdmitsMinNF ==
    [][ main.pc = "batch" =>
            /\ cq_size' <= capacity
            /\ \A i \in NonEmptySlots : cq_queue'[i] = cq_queue[i]
            /\ AllWorkersDone' =>
                   /\ AdmittedByBatch' = Min({Len(h'.jobs), capacity - h'.initial_size})
                   /\ cq_size' = h'.initial_size + AdmittedByBatch'
                   /\ Cardinality({job.job_id : job \in InSlots'})
                          = Cardinality(NonEmptySlots') ]_vars

\* A batch of more submissions than free slots, and more than max_threads, has
\* finished on a queue that held a job before it.
C26_Witness ==
    /\ obj = "PrintSystem"
    /\ AllWorkersDone
    /\ h.initial_size > 0
    /\ Len(h.jobs) > capacity - h.initial_size
    /\ Len(h.jobs) > max_threads
    /\ \E i \in 1..Len(h.jobs) : ~w_result[i].success

\* The place of the event of that name in the list.
PlaceOf(events, name) == CHOOSE k \in 1..Len(events) : events[k].name = name

\* Ticks since the event was added.
TicksSince(event) == es_tick_count - es_added[event.name].tick_count

\* Every resident event has waited one tick per tick since it was added, and has
\* gained one priority per AgeEvery ticks waited.
WaitedAndAged ==
    \A event \in EventsIn(es_events) :
        /\ event.waiting_time = TicksSince(event)
        /\ event.waiting_time < event.expiry_time
               => event.priority = es_added[event.name].priority
                                      + (TicksSince(event) \div 3)

\* The list is in descending order of priority.
Descending(events) ==
    \A j, k \in 1..Len(events) : j < k => events[j].priority >= events[k].priority

\* Events of equal priority stand in the order they had in the list before.
KeepsOrderOfEquals(before, after) ==
    \A a, b \in EventsIn(after) :
        (a.priority = b.priority /\ PlaceOf(before, a.name) < PlaceOf(before, b.name))
            => PlaceOf(after, a.name) < PlaceOf(after, b.name)

\* C27: an event added with priority p that is still resident after k ticks has
\* waiting_time k and priority p + floor(k / 3); after every tick the events are
\* in descending order of priority, those of equal priority in the relative
\* order they had before the tick.
C27_AgingAndOrder ==
    [][ obj = "EventSimulator" =>
            /\ WaitedAndAged'
            /\ last'.op = "EventSimulator.tick" =>
                   /\ Descending(es_events')
                   /\ KeepsOrderOfEquals(es_events, es_events') ]_vars

\* Two events have waited three ticks and aged once; the sort has moved the one
\* added second to the head of the list.
C27_Witness ==
    /\ obj = "EventSimulator"
    /\ last.op = "EventSimulator.tick"
    /\ Len(es_events) = 2
    /\ es_events[1].name = 2
    /\ \A event \in EventsIn(es_events) :
           /\ event.waiting_time >= 3
           /\ event.priority = es_added[event.name].priority + 1
====
